---- MODULE Spec2Model ----
(***************************************************************************)
(* Ecommerce API (src/main.py): product and order routes over a document   *)
(* store.  Each HTTP handler is one atomic action; the store's collections *)
(* "product" and "order" are sequences of documents in insertion order.    *)
(* A request comes with the number of the store call that raises while it  *)
(* is served (0: none), so that every try block's handler is exercised.    *)
(*                                                                         *)
(* Money is kept in thousandths of a currency unit (1500 is 1.50), so that *)
(* rounding to 2 decimals is visible; the prices used never put a total    *)
(* exactly half-way between two cents, where binary floats and decimals    *)
(* could disagree.                                                         *)
(***************************************************************************)
EXTENDS Integers, Sequences, FiniteSets, TLC

VARIABLES db, product, order, nextOid, clock, lastResp

vars == <<db, product, order, nextOid, clock, lastResp>>

----------------------------------------------------------------------------
(* Bounds of the model *)

\* documents the store may come to hold (caps the ObjectId counter)
MaxDocs == 3
\* line items in one order request
MaxItems == 2

\* default of list_orders' limit parameter
DefaultLimit == 50

----------------------------------------------------------------------------
(* Values *)

\* Python's None, where a string or a connection may be absent
None == "<None>"

\* the connection handle of the database module, when configured
Database == "database"

HexDigits == <<"1", "2", "3", "4", "5", "6", "7", "8", "9", "a", "b", "c", "d", "e", "f">>

\* str(ObjectId): the 24-digit hexadecimal form of the n-th generated id
ObjectIdStrings == [n \in 1..Len(HexDigits) |-> "65f00000000000000000000" \o HexDigits[n]]

ObjectIdStr(n) == ObjectIdStrings[n]

\* the strings bson accepts as an ObjectId: 24 hex digits
ValidOids == {ObjectIdStrings[n] : n \in 1..Len(HexDigits)}

IsValidOid(s) == s \in ValidOids

ParsedOids == [s \in ValidOids |-> CHOOSE n \in 1..Len(HexDigits) : ObjectIdStrings[n] = s]

\* ObjectId(s) for a valid s
ObjectId(s) == [oid |-> ParsedOids[s]]

\* datetime.isoformat() of the t-th clock reading
IsoStrings == [t \in 1..Len(HexDigits) |-> "2024-01-01T00:00:0" \o HexDigits[t]]

IsoFormat(t) == IsoStrings[t]

\* dict.get(key, default)
Get(d, key, default) == IF key \in DOMAIN d THEN d[key] ELSE default

\* round(x, 2) on thousandths: to the nearest cent, an exact half to the even cent
Round2(x) ==
    LET cents == x \div 10
        rest == x % 10
    IN  IF rest < 5 THEN 10 * cents
        ELSE IF rest > 5 THEN 10 * (cents + 1)
        ELSE IF cents % 2 = 0 THEN 10 * cents
        ELSE 10 * (cents + 1)

----------------------------------------------------------------------------
(* Request inputs *)

\* JSON bodies posted to /api/products
ProductBodies ==
    { [title |-> "Pen", price |-> 1500, category |-> "office"],
      [title |-> "Ink", description |-> "blue", price |-> 4, category |-> "",
       in_stock |-> FALSE, image_url |-> "http://img/ink.png"],
      [title |-> "Free", price |-> -1, category |-> "office"] }

Categories == {None, "", "office", "Office"}

\* the identifiers requests ask for: those of the first two documents the store
\* creates, and a malformed one
ProductIds == {ObjectIdStr(1), ObjectIdStr(2), "not-an-id"}

\* the line items requests are made of
ItemChoices ==
    { [product_id |-> ObjectIdStr(1), quantity |-> 1],
      [product_id |-> ObjectIdStr(2), quantity |-> 2],
      [product_id |-> "not-an-id", quantity |-> 1] }

ItemLists == UNION {[1..n -> ItemChoices] : n \in 0..MaxItems}

Jo == [name |-> "Jo", email |-> "jo@x.com", address |-> "1 St"]

\* JSON bodies posted to /api/orders: the well-formed ones, each carrying a total
\* of the client's own making, and two that fail validation
OrderBodies ==
    { [customer |-> Jo, items |-> its, total |-> 999] : its \in ItemLists }
    \cup { [customer |-> [Jo EXCEPT !.email = "jo-at-x"], items |-> <<>>, total |-> 0],
           [customer |-> Jo,
            items |-> <<[product_id |-> ObjectIdStr(1), quantity |-> 0]>>,
            total |-> 0] }

Limits == {0, 1, 2, DefaultLimit}

\* which store call of a request raises (0: none)
Faults == 0..(MaxItems + 2)

----------------------------------------------------------------------------
(* Schemas *)

\* ProductIn: price >= 0
ProductInValid(body) == body.price >= 0

\* ProductIn with in_stock always at its default, whatever the body says
ProductInStockDefault(body) ==
    [title |-> body.title,
     description |-> Get(body, "description", None),
     price |-> body.price,
     category |-> body.category,
     in_stock |-> TRUE,
     image_url |-> Get(body, "image_url", None)]

\* ProductIn(**body).model_dump(): the declared fields, defaults filled in
ProductIn(body) ==
    [title |-> body.title,
     description |-> Get(body, "description", None),
     price |-> body.price,
     category |-> body.category,
     in_stock |-> Get(body, "in_stock", TRUE),
     image_url |-> Get(body, "image_url", None)]

\* EmailStr
IsEmail(s) == s \in {"jo@x.com"}

\* OrderIn: every quantity > 0, the customer's email an email address
OrderInValid(body) ==
    /\ IsEmail(body.customer.email)
    /\ \A i \in 1..Len(body.items) : body.items[i].quantity > 0

\* OrderIn(**body): customer and items; any other field of the body is dropped
OrderIn(body) == [customer |-> body.customer, items |-> body.items]

\* ProductOut(**d)
ProductOut(d) ==
    [title |-> d.title, description |-> d.description, price |-> d.price,
     category |-> d.category, in_stock |-> d.in_stock, image_url |-> d.image_url,
     id |-> d.id,
     created_at |-> Get(d, "created_at", None),
     updated_at |-> Get(d, "updated_at", None)]

\* OrderOut(id=, total=, currency=, created_at=)
OrderOut(id, total, currency, created_at) ==
    [id |-> id, total |-> total, currency |-> currency, created_at |-> created_at]

----------------------------------------------------------------------------
(* Helpers *)

DateFields == {"created_at", "updated_at"}

\* doc_to_dict: ObjectId values to str, datetime values to ISO-8601, "_id" renamed "id"
doc_to_dict(doc) ==
    LET out == [k \in DOMAIN doc |->
                   IF k = "_id" THEN ObjectIdStr(doc[k].oid)
                   ELSE IF k \in DateFields THEN IsoFormat(doc[k].dt)
                   ELSE doc[k]]
    IN  IF "_id" \in DOMAIN out
        THEN [k \in (DOMAIN out \ {"_id"}) \cup {"id"} |->
                 IF k = "id" THEN out["_id"] ELSE out[k]]
        ELSE out

----------------------------------------------------------------------------
(* The document store *)

\* collection.find_one({"_id": oid}): the matching documents, none or one
find_one(coll, oid) == SelectSeq(coll, LAMBDA d : d["_id"] = oid)

\* collection.find(query): the documents equal to the query on each of its fields
find(coll, query) ==
    SelectSeq(coll, LAMBDA d : \A k \in DOMAIN query : k \in DOMAIN d /\ d[k] = query[k])

\* get_documents(collection_name, query)
get_documents(coll, query) == find(coll, query)

\* the document create_document inserts: data, a fresh _id, the time stamps.
\* Requests are served one after the other and the clock has moved on between
\* two inserts, so no two documents carry the same time stamp
Stamped(data, stamps) ==
    data @@ [k \in {"_id"} \cup stamps |->
                IF k = "_id" THEN [oid |-> nextOid] ELSE [dt |-> clock]]

RECURSIVE SortDesc(_, _)
\* cursor.sort(field, -1)
SortDesc(docs, field) ==
    IF docs = <<>> THEN <<>>
    ELSE LET i == CHOOSE i \in 1..Len(docs) :
                      \A j \in 1..Len(docs) : docs[j][field].dt <= docs[i][field].dt
             rest == [j \in 1..(Len(docs) - 1) |-> IF j < i THEN docs[j] ELSE docs[j + 1]]
         IN  <<docs[i]>> \o SortDesc(rest, field)

\* cursor.limit(n): the first n documents; a limit of 0 is no limit
Limit(docs, n) ==
    IF n = 0 \/ n >= Len(docs) THEN docs ELSE SubSeq(docs, 1, n)

----------------------------------------------------------------------------
(* Responses *)

\* what the client gets back, with the request it answers and what the store did
\* while serving it ("ok", "unavailable": no connection, "error": a call raised)
Response(op, req, status, storage, body) ==
    [op |-> op, req |-> req, status |-> status, storage |-> storage, body |-> body]

\* HTTPException(status_code, detail)
Detail(msg) == [detail |-> msg]

NotConfigured == "Database not configured"

Init ==
    /\ db \in {None, Database}
    /\ product = <<>>
    /\ order = <<>>
    /\ nextOid = 1
    /\ clock = 1
    /\ lastResp = Response("start", [none |-> TRUE], 0, "ok", Detail(""))

Unchanged == UNCHANGED <<db, product, order, nextOid, clock>>

----------------------------------------------------------------------------
(* Product routes *)

\* GET /api/products: the response
list_products(category, fault) ==
    LET req == [category |-> category] IN
    IF db = None
    THEN Response("list_products", req, 500, "unavailable", Detail(NotConfigured))
    ELSE IF fault = 1
    THEN Response("list_products", req, 500, "error", Detail("Internal Server Error"))
    ELSE LET query == IF category # None /\ category # ""
                      THEN [category |-> category]
                      ELSE <<>>
             docs == get_documents(product, query)
         IN  Response("list_products", req, 200, "ok",
                      [list |-> [i \in 1..Len(docs) |-> ProductOut(doc_to_dict(docs[i]))]])

\* POST /api/products
create_product(body, fault) ==
    LET req == [product |-> body] IN
    IF ~ProductInValid(body)
    THEN /\ Unchanged
         /\ lastResp' = Response("create_product", req, 422, "ok", Detail("validation"))
    ELSE IF db = None
    THEN /\ Unchanged
         /\ lastResp' = Response("create_product", req, 500, "unavailable",
                                 Detail("Database not available"))
    ELSE IF fault = 1
    THEN /\ Unchanged
         /\ lastResp' = Response("create_product", req, 500, "error", Detail("store error"))
    ELSE /\ nextOid <= MaxDocs
         /\ product' = Append(product, Stamped(ProductIn(body), DateFields))
         /\ nextOid' = nextOid + 1
         /\ clock' = clock + 1
         /\ UNCHANGED <<db, order>>
         /\ lastResp' = Response("create_product", req, 200, "ok",
                                 [id |-> ObjectIdStr(nextOid)])

\* get_product with the malformed id taken for a missing product
get_product_invalid_as_missing(product_id, fault) ==
    LET req == [product_id |-> product_id] IN
    IF db = None
    THEN Response("get_product", req, 500, "unavailable", Detail(NotConfigured))
    ELSE IF ~IsValidOid(product_id)
    THEN Response("get_product", req, 404, "ok", Detail("Product not found"))
    ELSE IF fault = 1
    THEN Response("get_product", req, 400, "error", Detail("Invalid product id"))
    ELSE LET doc == find_one(product, ObjectId(product_id))
         IN  IF doc = <<>>
             THEN Response("get_product", req, 404, "ok", Detail("Product not found"))
             ELSE Response("get_product", req, 200, "ok", ProductOut(doc_to_dict(doc[1])))

\* get_product with the missing product reported as an invalid id
get_product_missing_as_invalid(product_id, fault) ==
    LET req == [product_id |-> product_id] IN
    IF db = None
    THEN Response("get_product", req, 500, "unavailable", Detail(NotConfigured))
    ELSE IF ~IsValidOid(product_id)
    THEN Response("get_product", req, 400, "ok", Detail("Invalid product id"))
    ELSE IF fault = 1
    THEN Response("get_product", req, 400, "error", Detail("Invalid product id"))
    ELSE LET doc == find_one(product, ObjectId(product_id))
         IN  IF doc = <<>>
             THEN Response("get_product", req, 400, "ok", Detail("Invalid product id"))
             ELSE Response("get_product", req, 200, "ok", ProductOut(doc_to_dict(doc[1])))

\* GET /api/products/{product_id}: the response.  ObjectId(product_id) is
\* evaluated before find_one is called, and both sit in the one try block
get_product(product_id, fault) ==
    LET req == [product_id |-> product_id] IN
    IF db = None
    THEN Response("get_product", req, 500, "unavailable", Detail(NotConfigured))
    ELSE IF ~IsValidOid(product_id)
    THEN Response("get_product", req, 400, "ok", Detail("Invalid product id"))
    ELSE IF fault = 1
    THEN Response("get_product", req, 400, "error", Detail("Invalid product id"))
    ELSE LET doc == find_one(product, ObjectId(product_id))
         IN  IF doc = <<>>
             THEN Response("get_product", req, 404, "ok", Detail("Product not found"))
             ELSE Response("get_product", req, 200, "ok", ProductOut(doc_to_dict(doc[1])))

----------------------------------------------------------------------------
(* Order routes *)

\* the line amount rounded to cents before it is added
LinePriceRounded(price, quantity) == Round2(price * quantity)

\* price * item.quantity, the amount one line adds to the running total
LinePrice(price, quantity) == price * quantity

\* f"Invalid product id: {item.product_id}" and f"Product not found: {item.product_id}"
InvalidDetail == [p \in ProductIds |-> "Invalid product id: " \o p]

NotFoundDetail == [p \in ProductIds |-> "Product not found: " \o p]

Priced(status, total, storage, detail) ==
    [status |-> status, total |-> total, storage |-> storage, detail |-> detail]

RECURSIVE PriceItemsSkipMissing(_, _, _, _)
\* the loop with a missing product skipped instead of ending the request
PriceItemsSkipMissing(items, k, total, fault) ==
    IF k > Len(items)
    THEN Priced(200, total, "ok", "")
    ELSE LET item == items[k] IN
         IF ~IsValidOid(item.product_id)
         THEN Priced(400, total, "ok", InvalidDetail[item.product_id])
         ELSE IF fault = k
         THEN Priced(400, total, "error", InvalidDetail[item.product_id])
         ELSE LET prod == find_one(product, ObjectId(item.product_id)) IN
              IF prod = <<>>
              THEN PriceItemsSkipMissing(items, k + 1, total, fault)
              ELSE PriceItemsSkipMissing(items, k + 1,
                              total + LinePrice(Get(prod[1], "price", 0), item.quantity),
                              fault)

RECURSIVE PriceItems(_, _, _, _)
\* the loop of create_order over order.items from item k on, with the running
\* total so far: the first item that fails ends it.  The k-th lookup is the
\* request's k-th store call
PriceItems(items, k, total, fault) ==
    IF k > Len(items)
    THEN Priced(200, total, "ok", "")
    ELSE LET item == items[k] IN
         IF ~IsValidOid(item.product_id)
         THEN Priced(400, total, "ok", InvalidDetail[item.product_id])
         ELSE IF fault = k
         THEN Priced(400, total, "error", InvalidDetail[item.product_id])
         ELSE LET prod == find_one(product, ObjectId(item.product_id)) IN
              IF prod = <<>>
              THEN Priced(404, total, "ok", NotFoundDetail[item.product_id])
              ELSE PriceItems(items, k + 1,
                              total + LinePrice(Get(prod[1], "price", 0), item.quantity),
                              fault)

\* whether a product id names a stored product
Stored(product_id) ==
    /\ IsValidOid(product_id)
    /\ find_one(product, ObjectId(product_id)) # <<>>

\* what a create_order request asked for: its number of items and the position of
\* the first item whose product id is malformed or names no stored product (0: none)
OrderRequest(items) ==
    LET bad == {i \in 1..Len(items) : ~Stored(items[i].product_id)}
    IN  [n |-> Len(items),
         firstBad |-> IF bad = {} THEN 0 ELSE CHOOSE i \in bad : \A j \in bad : i <= j]

\* the number of store calls create_order makes for a body when none of them
\* raises: a lookup per item up to the first that is malformed (no call) or
\* missing, and the insert and the read back if every item is priced
StoreCalls(body) ==
    LET firstBad == OrderRequest(body.items).firstBad IN
    IF ~OrderInValid(body) \/ db = None THEN 0
    ELSE IF firstBad = 0 THEN Len(body.items) + 2
    ELSE IF IsValidOid(body.items[firstBad].product_id) THEN firstBad
    ELSE firstBad - 1

\* the order document
OrderDoc(o, total) ==
    [customer |-> o.customer,
     items |-> o.items,
     total |-> Round2(total),
     currency |-> "USD"]

\* the write done as a replacement of the newest order instead of an insert
InsertOrderOverLast(order_doc) ==
    /\ nextOid <= MaxDocs
    /\ order' = IF order = <<>>
                THEN <<Stamped(order_doc, {"created_at"})>>
                ELSE [order EXCEPT ![Len(order)] = Stamped(order_doc, {"created_at"})]
    /\ nextOid' = nextOid + 1
    /\ clock' = clock + 1
    /\ UNCHANGED <<db, product>>

\* new_id = create_document("order", order_doc)
InsertOrder(order_doc) ==
    /\ nextOid <= MaxDocs
    /\ order' = Append(order, Stamped(order_doc, {"created_at"}))
    /\ nextOid' = nextOid + 1
    /\ clock' = clock + 1
    /\ UNCHANGED <<db, product>>

\* POST /api/orders.  With n items, the insert is store call n + 1 and the read
\* back store call n + 2
create_order(body, fault) ==
    LET o == OrderIn(body)
        n == Len(body.items)
        req == OrderRequest(body.items)
    IN
    IF ~OrderInValid(body)
    THEN /\ Unchanged
         /\ lastResp' = Response("create_order", req, 422, "ok", Detail("validation"))
    ELSE IF db = None
    THEN /\ Unchanged
         /\ lastResp' = Response("create_order", req, 500, "unavailable", Detail(NotConfigured))
    ELSE LET priced == PriceItems(o.items, 1, 0, fault) IN
         IF priced.status # 200
         THEN /\ Unchanged
              /\ lastResp' = Response("create_order", req, priced.status, priced.storage,
                                      Detail(priced.detail))
         ELSE IF fault = n + 1
         THEN /\ Unchanged
              /\ lastResp' = Response("create_order", req, 500, "error", Detail("store error"))
         ELSE /\ InsertOrder(OrderDoc(o, priced.total))
              /\ lastResp' =
                   IF fault = n + 2
                   THEN Response("create_order", req, 500, "error", Detail("store error"))
                   ELSE LET saved == find_one(order', [oid |-> nextOid])
                            saved_dict == doc_to_dict(saved[1])
                        IN  Response("create_order", req, 200, "ok",
                                     OrderOut(saved_dict["id"],
                                              saved_dict["total"],
                                              Get(saved_dict, "currency", "USD"),
                                              Get(saved_dict, "created_at", None)))

\* GET /api/orders: the response
list_orders(limit, fault) ==
    LET req == [limit |-> limit] IN
    IF db = None
    THEN Response("list_orders", req, 500, "unavailable", Detail(NotConfigured))
    ELSE IF fault = 1
    THEN Response("list_orders", req, 500, "error", Detail("Internal Server Error"))
    ELSE LET docs == Limit(SortDesc(find(order, <<>>), "created_at"), limit)
             dd(i) == doc_to_dict(docs[i])
         IN  Response("list_orders", req, 200, "ok",
                      [list |-> [i \in 1..Len(docs) |->
                                    OrderOut(dd(i)["id"],
                                             Get(dd(i), "total", 0),
                                             Get(dd(i), "currency", "USD"),
                                             Get(dd(i), "created_at", None))]])

----------------------------------------------------------------------------
(* The system *)

ListProducts ==
    \E category \in Categories, fault \in {0, 1} :
        /\ lastResp' = list_products(category, fault)
        /\ Unchanged

CreateProduct == \E body \in ProductBodies, fault \in {0, 1} : create_product(body, fault)

GetProduct ==
    \E product_id \in ProductIds, fault \in {0, 1} :
        /\ lastResp' = get_product(product_id, fault)
        /\ Unchanged

CreateOrder ==
    \E body \in OrderBodies, fault \in Faults :
        /\ fault <= StoreCalls(body)
        /\ create_order(body, fault)

ListOrders ==
    \E limit \in Limits, fault \in {0, 1} :
        /\ lastResp' = list_orders(limit, fault)
        /\ Unchanged

Next ==
    \/ ListProducts
    \/ CreateProduct
    \/ GetProduct
    \/ CreateOrder
    \/ ListOrders

Spec == Init /\ [][Next]_vars

----------------------------------------------------------------------------
(* Properties *)

\* the last request was served by handler op: it passed the schema's validation,
\* which FastAPI applies before the handler is called
Handled(op) == lastResp.op = op /\ lastResp.status # 422

\* the price the store holds for a product id
StoredPrice(product_id) == find_one(product, ObjectId(product_id))[1].price

\* the sum over the items of stored price times quantity
ItemsSum(items) ==
    LET sum[i \in 0..Len(items)] ==
            IF i = 0 THEN 0
            ELSE sum[i - 1] + StoredPrice(items[i].product_id) * items[i].quantity
    IN  sum[Len(items)]

\* the order document a successful create_order response names
SavedOrder == find_one(order, ObjectId(lastResp.body.id))

\* C1: the total stored and returned by a successful create_order is the sum over
\* its items, duplicates included, of stored price times quantity, rounded to 2
\* decimals once at the end; the total the client sent plays no part.
C1_TotalIsRoundedSum ==
    (lastResp.op = "create_order" /\ lastResp.status = 200) =>
        /\ Len(SavedOrder) = 1
        /\ Len(SavedOrder[1].items) = lastResp.req.n
        /\ SavedOrder[1].total = Round2(ItemsSum(SavedOrder[1].items))
        /\ lastResp.body.total = SavedOrder[1].total

\* an order of one product twice whose exact sum rounds up although each line
\* alone would round down
C1_Witness ==
    /\ lastResp.op = "create_order"
    /\ lastResp.status = 200
    /\ Len(SavedOrder[1].items) = 2
    /\ SavedOrder[1].items[1].product_id = SavedOrder[1].items[2].product_id
    /\ ItemsSum(SavedOrder[1].items) = 8
    /\ lastResp.body.total = 10

\* C2 as claimed: a create_order naming a malformed or missing product id, at any
\* position, ends with 400 or 404 and leaves the order collection unchanged.
C2_Original ==
    [][(lastResp'.op = "create_order" /\ lastResp'.status # 422
        /\ lastResp'.req.firstBad > 0)
       => (lastResp'.status \in {400, 404} /\ order' = order)]_vars

\* C2 as amended: such a request ends with 400 or 404 when a store connection is
\* configured and with 500 when none is; in every case the order collection is
\* unchanged.
C2_BadItemAbortsWithoutWrite ==
    [][(lastResp'.op = "create_order" /\ lastResp'.status # 422
        /\ lastResp'.req.firstBad > 0)
       => /\ IF db = None THEN lastResp'.status = 500
                          ELSE lastResp'.status \in {400, 404}
          /\ order' = order]_vars

\* a request whose first item was priced and whose second names no product
C2_Witness ==
    /\ Handled("create_order")
    /\ db = Database
    /\ lastResp.req.firstBad = 2
    /\ lastResp.status = 404

\* C3 as claimed: get_product with a malformed id answers 400 in every state.
C3_Original ==
    (lastResp.op = "get_product" /\ ~IsValidOid(lastResp.req.product_id))
        => lastResp.status = 400

\* C3 as amended: get_product with a malformed id answers 400, never 404 or 500,
\* when a store connection is configured; with none configured it answers 500.
C3_MalformedIdIs400 ==
    (lastResp.op = "get_product" /\ ~IsValidOid(lastResp.req.product_id))
        => lastResp.status = IF db = None THEN 500 ELSE 400

C3_Witness ==
    /\ lastResp.op = "get_product"
    /\ ~IsValidOid(lastResp.req.product_id)
    /\ db = Database
    /\ product # <<>>
    /\ lastResp.status = 400

ProductsOfCategory(category) ==
    LET docs == IF category = None
                THEN product
                ELSE SelectSeq(product, LAMBDA d : d.category = category)
    IN  [i \in 1..Len(docs) |-> ProductOut(doc_to_dict(docs[i]))]

\* C5: a successful list_products with category c, the empty string included,
\* returns exactly the stored products whose category is c, and all of them when
\* no category is given.
C5_Claim ==
    (lastResp.op = "list_products" /\ lastResp.status = 200)
        => lastResp.body.list = ProductsOfCategory(lastResp.req.category)

\* C6: a successful list_orders with limit n returns at most n orders, the most
\* recently created first, and exactly n when at least n exist.
C6_Claim ==
    (lastResp.op = "list_orders" /\ lastResp.status = 200) =>
        LET n == lastResp.req.limit
            out == lastResp.body.list
        IN  /\ Len(out) <= n
            /\ Len(order) >= n => Len(out) = n
            /\ \A i \in 1..Len(out) :
                   out[i].id = doc_to_dict(order[Len(order) + 1 - i]).id

\* C7: after a successful create_product the returned id is a non-empty string
\* that no earlier product has, and get_product on it yields the input's fields.
C7_CreateThenGet ==
    (lastResp.op = "create_product" /\ lastResp.status = 200) =>
        LET id == lastResp.body.id
            input == lastResp.req.product
            fetched == get_product(id, 0)
        IN  /\ id # ""
            /\ \A i \in 1..(Len(product) - 1) : doc_to_dict(product[i]).id # id
            /\ fetched.status = 200
            /\ fetched.body.id = id
            /\ \A f \in DOMAIN input : fetched.body[f] = input[f]

\* a second product, created with in_stock false
C7_Witness ==
    /\ lastResp.op = "create_product"
    /\ lastResp.status = 200
    /\ Len(product) = 2
    /\ lastResp.req.product.title = "Ink"
    /\ get_product(lastResp.body.id, 0).body.in_stock = FALSE

\* C8: a persisted order is never changed or removed by any later operation.
C8_OrdersImmutable ==
    [][/\ Len(order') >= Len(order)
       /\ \A i \in 1..Len(order) : order'[i] = order[i]]_vars

\* a second order created while the first is persisted
C8_Witness ==
    /\ Len(order) = 2
    /\ lastResp.op = "create_order"
    /\ lastResp.status = 200

\* C9: a request during which the store was unavailable or a store call raised
\* is answered 500.
C9_Claim == lastResp.storage # "ok" => lastResp.status = 500

\* C10: a create_order request adds exactly one order document if it answers 200
\* and leaves the orders unchanged if it answers an error.
C10_Claim ==
    [][(lastResp'.op = "create_order") =>
          IF lastResp'.status = 200
          THEN /\ Len(order') = Len(order) + 1
               /\ SubSeq(order', 1, Len(order)) = order
          ELSE order' = order]_vars

====
